---- MODULE Spec2Model ----
(***************************************************************************)
(* Devotion CLI: the workflow of the three commands dev (start work),      *)
(* pr (open for review) and finish over the ticket tracker, the git        *)
(* working copy with its remote, and the code host.                        *)
(*                                                                         *)
(* Strings of the program that the code takes apart (branch names, ticket  *)
(* identifiers, ticket types, descriptions) are sequences of one-character *)
(* strings.  Every await of a command is one step of the command's         *)
(* position pc; a remote call either succeeds or fails.                    *)
(***************************************************************************)
EXTENDS Integers, Sequences, FiniteSets, TLC

\* ------------------------------------------------------------------ bounds
\* raw descriptions the branch-description prompt accepts
Descriptions == { <<"F","i","x","!">>, <<"a"," ","b">> }
\* ticket types of the ticket ("Type" select), Undefined = no type
Undefined == << "<undefined>" >>
TicketTypes == { Undefined, <<"B","u","g">> }
\* the ticket of the model, as mapPageToTicket composes it: prefix-number
TicketIdOfModel == <<"A","B","-","1","2">>

\* ---------------------------------------------------------------- constants
\* the status names, without the emoji the tracker's option names start with
TICKET_STATUS_BACKLOG == "Backlog"
TICKET_STATUS_IN_PROGRESS == "In progress"
TICKET_STATUS_IN_REVIEW == "In review"
TICKET_STATUS_DONE == "Done"
DEFAULT_UNKNOWN_STATUS == "Unknown"
\* localConfig.developmentBranch, the default answer of the init prompt
developmentBranch == <<"d","e","v","e","l","o","p">>
DescriptionMaxLen == 50

Statuses == { TICKET_STATUS_BACKLOG, TICKET_STATUS_IN_PROGRESS,
              TICKET_STATUS_IN_REVIEW, TICKET_STATUS_DONE,
              DEFAULT_UNKNOWN_STATUS }

\* ------------------------------------------------------------ string helpers
UpperChars == <<"A","B","C","D","E","F","G","H","I","J","K","L","M",
                "N","O","P","Q","R","S","T","U","V","W","X","Y","Z">>
LowerChars == <<"a","b","c","d","e","f","g","h","i","j","k","l","m",
                "n","o","p","q","r","s","t","u","v","w","x","y","z">>
DigitChars == {"0","1","2","3","4","5","6","7","8","9"}
SpaceChars == {" ", "\t", "\n"}

Range(f) == { f[i] : i \in DOMAIN f }
IsLetter(c) == c \in Range(UpperChars) \cup Range(LowerChars)
IsDigit(c) == c \in DigitChars

ToLowerChar(c) ==
    IF c \in Range(UpperChars)
    THEN LowerChars[CHOOSE i \in DOMAIN UpperChars : UpperChars[i] = c]
    ELSE c

toLowerCase(s) == [i \in DOMAIN s |-> ToLowerChar(s[i])]

\* String.prototype.includes
includes(s, sub) ==
    \E i \in 0..(Len(s) - Len(sub)) : SubSeq(s, i + 1, i + Len(sub)) = sub

\* String.prototype.substring(0, n)
substring0(s, n) == SubSeq(s, 1, IF Len(s) < n THEN Len(s) ELSE n)

\* number of leading characters of s, from position i on, that satisfy the class
RECURSIVE LetterRun(_, _)
LetterRun(s, i) ==
    IF i <= Len(s) /\ IsLetter(s[i]) THEN 1 + LetterRun(s, i + 1) ELSE 0

RECURSIVE DigitRun(_, _)
DigitRun(s, i) ==
    IF i <= Len(s) /\ IsDigit(s[i]) THEN 1 + DigitRun(s, i + 1) ELSE 0

\* variant: the '_' after the digits is not asked for
TicketIdMatchAt_NoUnderscore(s, i) ==
    IF i > Len(s) \/ s[i] # "/" THEN 0
    ELSE LET l == LetterRun(s, i + 1)
             d == DigitRun(s, i + 1 + l + 1)
         IN  IF /\ l >= 1
                /\ i + 1 + l <= Len(s) /\ s[i + 1 + l] = "-"
                /\ d >= 1
             THEN l + 1 + d ELSE 0

\* the regular expression /\/([A-Za-z]+-\d+)_/ matched with the '/' at i:
\* the length of the captured group, 0 when there is no match at i
TicketIdMatchAt(s, i) ==
    IF i > Len(s) \/ s[i] # "/" THEN 0
    ELSE LET l == LetterRun(s, i + 1)
             d == DigitRun(s, i + 1 + l + 1)
         IN  IF /\ l >= 1
                /\ i + 1 + l <= Len(s) /\ s[i + 1 + l] = "-"
                /\ d >= 1
                /\ i + 1 + l + 1 + d <= Len(s) /\ s[i + 1 + l + 1 + d] = "_"
             THEN l + 1 + d ELSE 0

NoTicketId == << >>

\* utils.ts extractTicketIdFromBranchName: leftmost match, null as NoTicketId
extractTicketIdFromBranchName(branchName) ==
    LET hits == { i \in 1..Len(branchName) : TicketIdMatchAt(branchName, i) > 0 }
    IN  IF hits = {} THEN NoTicketId
        ELSE LET i == CHOOSE j \in hits : \A k \in hits : j <= k
             IN  SubSeq(branchName, i + 1, i + TicketIdMatchAt(branchName, i))

\* .replace(/[^a-z0-9\s]/g, "")
StripSpecial(s) ==
    SelectSeq(s, LAMBDA c : c \in Range(LowerChars) \/ IsDigit(c) \/ c \in SpaceChars)

\* .replace(/\s+/g, "_")
RECURSIVE SpacesToUnderscore(_)
SpacesToUnderscore(s) ==
    IF s = << >> THEN << >>
    ELSE IF Head(s) \in SpaceChars
         THEN IF Len(s) >= 2 /\ s[2] \in SpaceChars
              THEN SpacesToUnderscore(Tail(s))
              ELSE <<"_">> \o SpacesToUnderscore(Tail(s))
         ELSE <<Head(s)>> \o SpacesToUnderscore(Tail(s))

\* .replace(/_{2,}/g, "_")
RECURSIVE CollapseUnderscores(_)
CollapseUnderscores(s) ==
    IF s = << >> THEN << >>
    ELSE IF Head(s) = "_" /\ Len(s) >= 2 /\ s[2] = "_"
         THEN CollapseUnderscores(Tail(s))
         ELSE <<Head(s)>> \o CollapseUnderscores(Tail(s))

\* .replace(/^_+|_+$/g, "")
RECURSIVE TrimLeft(_)
TrimLeft(s) == IF s # << >> /\ Head(s) = "_" THEN TrimLeft(Tail(s)) ELSE s

RECURSIVE TrimRight(_)
TrimRight(s) ==
    IF s # << >> /\ s[Len(s)] = "_" THEN TrimRight(SubSeq(s, 1, Len(s) - 1)) ELSE s

TrimUnderscores(s) == TrimRight(TrimLeft(s))

\* utils.ts sanitizeDescription
sanitizeDescription(description) ==
    substring0(
        TrimUnderscores(
            CollapseUnderscores(
                SpacesToUnderscore(StripSpecial(toLowerCase(description))))),
        DescriptionMaxLen)

\* variant: a type without keyword is its own category
buildBranchPrefix_TypeAsCategory(ticketType, ticketId) ==
    LET lowerType == toLowerCase(ticketType)
        prefix ==
            IF includes(lowerType, <<"b","u","g">>)
            THEN <<"b","u","g","f","i","x">>
            ELSE IF includes(lowerType,
                       <<"d","o","c","u","m","e","n","t","a","t","i","o","n">>)
                 THEN <<"d","o","c">>
                 ELSE lowerType
    IN  prefix \o <<"/">> \o ticketId \o <<"_">>

\* utils.ts buildBranchPrefix
buildBranchPrefix(ticketType, ticketId) ==
    LET lowerType == toLowerCase(ticketType)
        prefix ==
            IF ticketType # Undefined /\ ticketType # << >>
            THEN IF includes(lowerType, <<"b","u","g">>)
                 THEN <<"b","u","g","f","i","x">>
                 ELSE IF \/ includes(lowerType,
                              <<"d","o","c","u","m","e","n","t","a","t","i","o","n">>)
                         \/ includes(lowerType,
                              <<"d","o","k","u","m","e","n","t","a","t","i","o","n">>)
                      THEN <<"d","o","c">>
                      ELSE <<"f","e","a","t","u","r","e">>
            ELSE <<"f","e","a","t","u","r","e">>
    IN  prefix \o <<"/">> \o ticketId \o <<"_">>


\* ------------------------------------------------------------------- state
VARIABLES
    ticketStatus,    \* tracker: the "Status" of the ticket
    ticketType,      \* tracker: the "Type" select of the ticket
    prLink,          \* tracker: the "GitHub Pull Request" url is written
    localBranches,   \* git: local branches of the working copy
    trackingRefs,    \* git: remotes/origin/* refs known to the working copy
    originBranches,  \* git: branches on the remote
    upstream,        \* git: local branches with an upstream configured
    currentBranch,   \* git: status.current, << >> when detached
    openPR,          \* code host: heads with an open PR onto the development branch
    mergedPR,        \* code host: heads whose PR onto it has been merged
    cmd,             \* the command of the current or last invocation
    pc,              \* position inside the invocation, "idle" between them
    exitCode,        \* outcome of the last invocation
    log,             \* mutating calls issued by the invocation, in order
    loc,             \* local variables of the invocation
    snap,            \* the world the running invocation started in
    hist             \* history: what earlier invocations left behind

git == <<localBranches, trackingRefs, originBranches, upstream, currentBranch>>
tracker == <<ticketStatus, ticketType, prLink>>
host == <<openPR, mergedPR>>
vars == <<ticketStatus, ticketType, prLink, localBranches, trackingRefs,
          originBranches, upstream, currentBranch, openPR, mergedPR,
          cmd, pc, exitCode, log, loc, snap, hist>>

Detached == << >>

\* everything the commands can change outside the process
World == <<ticketStatus, prLink, localBranches, trackingRefs, originBranches,
           upstream, currentBranch, openPR, mergedPR>>

\* while an invocation runs: the world at its start, and whether somebody
\* else changed the world since
NoSnap == [world |-> << >>, ext |-> FALSE]
SnapAtStart == [world |-> World, ext |-> FALSE]

\* locals of an invocation; resume tells after which earlier invocation it runs
LocInit ==
    [resume |-> FALSE,
     status |-> "", ttype |-> Undefined, branch |-> << >>,
     found |-> FALSE, authUser |-> FALSE, mergeable |-> "unread",
     merged |-> FALSE, checkState |-> "unread", gate |-> "unasked"]

HistInit == [devClean |-> FALSE, prPartial |-> FALSE, mergedNotDone |-> FALSE]

Init ==
    /\ ticketStatus = TICKET_STATUS_BACKLOG
    /\ ticketType \in TicketTypes
    /\ prLink = FALSE
    /\ localBranches = {developmentBranch}
    /\ trackingRefs = {developmentBranch}
    /\ originBranches = {developmentBranch}
    /\ upstream = {developmentBranch}
    /\ currentBranch = developmentBranch
    /\ openPR = {}
    /\ mergedPR = {}
    /\ cmd = "none"
    /\ pc = "idle"
    /\ exitCode = "none"
    /\ log = << >>
    /\ loc = LocInit
    /\ snap = NoSnap
    /\ hist = HistInit

\* ------------------------------------------------------------ bookkeeping
Entry(op, arg, ok) == [op |-> op, arg |-> arg, ok |-> ok]

Issued(lg, op) == \E i \in DOMAIN lg : lg[i].op = op
IssuedOk(lg, op) == \E i \in DOMAIN lg : lg[i].op = op /\ lg[i].ok
StatusWritten(lg, s) ==
    \E i \in DOMAIN lg : lg[i].op = "writeStatus" /\ lg[i].arg = s
StatusWrittenOk(lg, s) ==
    \E i \in DOMAIN lg : lg[i].op = "writeStatus" /\ lg[i].arg = s /\ lg[i].ok

\* what an invocation that ends with `code` leaves behind for the next one
HistAtEnd(code, lg, complete) ==
    [devClean |-> IF cmd = "dev" /\ complete THEN TRUE ELSE hist.devClean,
     prPartial |->
        IF cmd = "mr"
        THEN IF code \in {"1", "crash"} /\ IssuedOk(lg, "createPR") THEN TRUE
             ELSE IF code = "0" THEN FALSE ELSE hist.prPartial
        ELSE hist.prPartial,
     mergedNotDone |->
        IF /\ cmd = "finish" /\ code = "crash" /\ IssuedOk(lg, "merge")
           /\ ~StatusWrittenOk(lg, TICKET_STATUS_DONE)
        THEN TRUE ELSE hist.mergedNotDone]

\* the invocation ends: return (code "0"), process.exit(n) or a crash
End(code, lg, complete) ==
    /\ pc' = "idle"
    /\ exitCode' = code
    /\ hist' = HistAtEnd(code, lg, complete)
    /\ snap' = NoSnap

Goto(label) == pc' = label /\ UNCHANGED <<exitCode, hist, snap>>

\* ------------------------------------------------------------ git service
getAllBranches == [local |-> localBranches, remote |-> trackingRefs]

\* git.service findBranchWithTicketId: the branches, local ones first, whose
\* name contains "<ticketId>_"; the first of them is returned
BranchMatches(branch, ticketId) == includes(branch, ticketId \o <<"_">>)

findBranchWithTicketId(ticketId) ==
    LET l == { b \in getAllBranches.local : BranchMatches(b, ticketId) }
        r == { b \in getAllBranches.remote : BranchMatches(b, ticketId) }
    IN  IF l # {} THEN l ELSE r

\* variant: a branch that exists nowhere is checked out as well
SwitchPossible_Always(b) == TRUE

\* git.service switchToBranch
SwitchPossible(b) == b \in localBranches \/ b \in trackingRefs

SwitchEffect(b) ==
    /\ currentBranch' = b
    /\ localBranches' = localBranches \cup {b}
    /\ upstream' = IF b \in localBranches THEN upstream ELSE upstream \cup {b}
    /\ UNCHANGED <<trackingRefs, originBranches>>

\* variant: a pull needs no upstream
PullPossible_NoUpstream == currentBranch # Detached

\* git.service pullLatestChanges: git pull needs an upstream that exists
PullPossible ==
    /\ currentBranch # Detached
    /\ currentBranch \in upstream
    /\ currentBranch \in originBranches

PullEffect(ok) ==
    /\ \/ trackingRefs' = trackingRefs \cup originBranches
       \/ ~ok /\ trackingRefs' = trackingRefs
    /\ UNCHANGED <<localBranches, originBranches, upstream, currentBranch>>

\* git checkout -b <name>
CheckoutNewPossible(b) == b \notin localBranches

CheckoutNewEffect(b) ==
    /\ localBranches' = localBranches \cup {b}
    /\ currentBranch' = b
    /\ UNCHANGED <<trackingRefs, originBranches, upstream>>

\* git.service pushBranchToRemote: git push origin <name> --set-upstream
PublishEffect(b) ==
    /\ originBranches' = originBranches \cup {b}
    /\ trackingRefs' = trackingRefs \cup {b}
    /\ upstream' = upstream \cup {b}
    /\ UNCHANGED <<localBranches, currentBranch>>

\* git.service pushCurrentBranch: git push origin <current>
PushCurrentEffect ==
    /\ originBranches' = originBranches \cup {currentBranch}
    /\ trackingRefs' = trackingRefs \cup {currentBranch}
    /\ UNCHANGED <<localBranches, upstream, currentBranch>>

\* git.service deleteRemoteBranch: git push origin :<name>
DeleteRemotePossible(b) == b \in originBranches

DeleteRemoteEffect(b) ==
    /\ originBranches' = originBranches \ {b}
    /\ trackingRefs' = trackingRefs \ {b}
    /\ UNCHANGED <<localBranches, upstream, currentBranch>>

\* git.service deleteLocalBranch: git branch -D <name>
DeleteLocalPossible(b) == b \in localBranches /\ b # currentBranch

DeleteLocalEffect(b) ==
    /\ localBranches' = localBranches \ {b}
    /\ upstream' = upstream \ {b}
    /\ UNCHANGED <<trackingRefs, originBranches, currentBranch>>

\* ---------------------------------------------------------------- start work
\* variant: the status is written on every run
NeedsInProgressWrite_Always(status) == TRUE

\* dev.ts: the status write is skipped for a ticket already in progress
NeedsInProgressWrite(status) == status # TICKET_STATUS_IN_PROGRESS

\* notion.service getTicketsForDev: the filter of the candidate list
IsDevCandidate(status) ==
    status \in {TICKET_STATUS_BACKLOG, TICKET_STATUS_IN_PROGRESS}

StartDev ==
    /\ pc = "idle"
    /\ cmd' = "dev"
    /\ pc' = "d_pre"
    /\ exitCode' = "none"
    /\ log' = << >>
    /\ snap' = SnapAtStart
    /\ loc' = [LocInit EXCEPT !.resume = hist.devClean]
    /\ hist' = [hist EXCEPT !.prPartial = FALSE, !.mergedNotDone = FALSE]
    /\ UNCHANGED <<tracker, git, host>>

\* configuration exists and is readable, the directory is a working copy
DevPreconditions ==
    /\ cmd = "dev" /\ pc = "d_pre"
    /\ \E ok \in BOOLEAN :
        IF ok THEN Goto("d_fetch") ELSE End("0", log, FALSE)
    /\ UNCHANGED <<tracker, git, host, cmd, log, loc>>

\* getTicketsForDev and the ticket selection
DevFetchTickets ==
    /\ cmd = "dev" /\ pc = "d_fetch"
    /\ \E ok \in BOOLEAN :
        IF ~ok THEN End("1", log, FALSE) /\ loc' = loc
        ELSE IF ~IsDevCandidate(ticketStatus)
             THEN End("0", log, FALSE) /\ loc' = loc
             ELSE /\ loc' = [loc EXCEPT !.status = ticketStatus,
                                        !.ttype = ticketType]
                  /\ Goto("d_find")
    /\ UNCHANGED <<tracker, git, host, cmd, log>>

DevFindBranch ==
    /\ cmd = "dev" /\ pc = "d_find"
    /\ LET c == findBranchWithTicketId(TicketIdOfModel)
       IN  IF c = {}
           THEN loc' = [loc EXCEPT !.found = FALSE] /\ Goto("d_prompt")
           ELSE \E b \in c :
                  /\ loc' = [loc EXCEPT !.found = TRUE, !.branch = b]
                  /\ Goto("d_switch")
    /\ UNCHANGED <<tracker, git, host, cmd, log>>

DevSwitch ==
    /\ cmd = "dev" /\ pc = "d_switch"
    /\ \E ok \in BOOLEAN :
        LET done == ok /\ SwitchPossible(loc.branch)
            lg == Append(log, Entry("switch", loc.branch, done))
        IN  /\ log' = lg
            /\ IF done THEN SwitchEffect(loc.branch) /\ Goto("d_pull")
               ELSE UNCHANGED git /\ End("1", lg, FALSE)
    /\ UNCHANGED <<tracker, host, cmd, loc>>

DevPull ==
    /\ cmd = "dev" /\ pc = "d_pull"
    /\ \E ok \in BOOLEAN :
        LET done == ok /\ PullPossible
            lg == Append(log, Entry("pull", currentBranch, done))
        IN  /\ log' = lg
            /\ PullEffect(done)
            /\ IF done THEN Goto("d_status") ELSE End("1", lg, FALSE)
    /\ UNCHANGED <<tracker, host, cmd, loc>>

\* buildBranchPrefix, promptForBranchDescription, the composed branch name
DevPromptDescription ==
    /\ cmd = "dev" /\ pc = "d_prompt"
    /\ \E d \in Descriptions :
        loc' = [loc EXCEPT !.branch =
                    buildBranchPrefix(loc.ttype, TicketIdOfModel)
                        \o sanitizeDescription(d)]
    /\ Goto("d_base_switch")
    /\ UNCHANGED <<tracker, git, host, cmd, log>>

\* createAndSwitchToBranch, first statement: switchToBranch(fromBranch)
DevCreateSwitchBase ==
    /\ cmd = "dev" /\ pc = "d_base_switch"
    /\ \E ok \in BOOLEAN :
        LET done == ok /\ SwitchPossible(developmentBranch)
            lg == Append(log, Entry("switch", developmentBranch, done))
        IN  /\ log' = lg
            /\ IF done
               THEN SwitchEffect(developmentBranch) /\ Goto("d_base_pull")
               ELSE UNCHANGED git /\ End("1", lg, FALSE)
    /\ UNCHANGED <<tracker, host, cmd, loc>>

\* variant: the branch is created also after a failed pull of the base
DevCreatePullBase_FailureIgnored ==
    /\ cmd = "dev" /\ pc = "d_base_pull"
    /\ \E ok \in BOOLEAN :
        LET done == ok /\ PullPossible
        IN  /\ log' = Append(log, Entry("pull", currentBranch, done))
            /\ PullEffect(done)
            /\ Goto("d_create")
    /\ UNCHANGED <<tracker, host, cmd, loc>>

\* createAndSwitchToBranch, second statement: pullLatestChanges()
DevCreatePullBase ==
    /\ cmd = "dev" /\ pc = "d_base_pull"
    /\ \E ok \in BOOLEAN :
        LET done == ok /\ PullPossible
            lg == Append(log, Entry("pull", currentBranch, done))
        IN  /\ log' = lg
            /\ PullEffect(done)
            /\ IF done THEN Goto("d_create") ELSE End("1", lg, FALSE)
    /\ UNCHANGED <<tracker, host, cmd, loc>>

\* variant: the publish follows also a failed creation
DevCreateBranch_FailureIgnored ==
    /\ cmd = "dev" /\ pc = "d_create"
    /\ \E ok \in BOOLEAN :
        LET done == ok /\ CheckoutNewPossible(loc.branch)
        IN  /\ log' = Append(log, Entry("createBranch", loc.branch, done))
            /\ IF done THEN CheckoutNewEffect(loc.branch) ELSE UNCHANGED git
            /\ Goto("d_publish")
    /\ UNCHANGED <<tracker, host, cmd, loc>>

\* createAndSwitchToBranch, third statement: git checkout -b branchName
DevCreateBranch ==
    /\ cmd = "dev" /\ pc = "d_create"
    /\ \E ok \in BOOLEAN :
        LET done == ok /\ CheckoutNewPossible(loc.branch)
            lg == Append(log, Entry("createBranch", loc.branch, done))
        IN  /\ log' = lg
            /\ IF done THEN CheckoutNewEffect(loc.branch) /\ Goto("d_publish")
               ELSE UNCHANGED git /\ End("1", lg, FALSE)
    /\ UNCHANGED <<tracker, host, cmd, loc>>

\* variant: a failed publish is not noticed
DevPublish_FailureIgnored ==
    /\ cmd = "dev" /\ pc = "d_publish"
    /\ \E ok \in BOOLEAN :
        /\ log' = Append(log, Entry("publish", loc.branch, ok))
        /\ IF ok THEN PublishEffect(loc.branch) ELSE UNCHANGED git
        /\ Goto("d_status")
    /\ UNCHANGED <<tracker, host, cmd, loc>>

\* pushBranchToRemote(branchName)
DevPublish ==
    /\ cmd = "dev" /\ pc = "d_publish"
    /\ \E ok \in BOOLEAN :
        LET lg == Append(log, Entry("publish", loc.branch, ok))
        IN  /\ log' = lg
            /\ IF ok THEN PublishEffect(loc.branch) /\ Goto("d_status")
               ELSE UNCHANGED git /\ End("1", lg, FALSE)
    /\ UNCHANGED <<tracker, host, cmd, loc>>

\* the status transition to In progress and the final message
DevUpdateStatus ==
    /\ cmd = "dev" /\ pc = "d_status"
    /\ IF NeedsInProgressWrite(loc.status)
       THEN \E ok \in BOOLEAN :
              LET lg == Append(log,
                          Entry("writeStatus", TICKET_STATUS_IN_PROGRESS, ok))
              IN  /\ log' = lg
                  /\ IF ok
                     THEN /\ ticketStatus' = TICKET_STATUS_IN_PROGRESS
                          /\ End("0", lg, TRUE)
                     ELSE /\ ticketStatus' = ticketStatus
                          /\ End("1", lg, FALSE)
       ELSE /\ UNCHANGED <<log, ticketStatus>>
            /\ End("0", log, TRUE)
    /\ UNCHANGED <<ticketType, prLink, git, host, cmd, loc>>


\* ------------------------------------------------------------- code host
\* github.service checkIfPullRequestExists: the answer for (head, base);
\* remoteOk is whether pulls.list answered
checkIfPullRequestExists(head, remoteOk) ==
    IF remoteOk THEN head \in openPR ELSE FALSE

\* pulls.create is rejected while an open PR for (head, base) exists and
\* when the head is not on the remote
CreatePossible(head) == head \notin openPR /\ head \in originBranches

\* github.service getPullRequestDetails: pr.merged of the PR found before
DetailsMerged(head) == head \notin openPR /\ head \in mergedPR

MergePossible(head) == head \in openPR

\* github.service checkPullRequestStatus
CheckRunStatuses == {"queued", "in_progress", "completed"}
CheckRunConclusions == {"null", "success", "failure", "cancelled", "timed_out"}
CheckRuns == [status : CheckRunStatuses, conclusion : CheckRunConclusions]
CombinedStates == {"success", "pending", "failure"}
MaxCheckRuns == 1
MaxStatuses == 1

IsFailedRun(run) == run.conclusion \in {"failure", "cancelled", "timed_out"}

\* variant: a completed run without conclusion does not count as pending
IsPendingRun_StatusOnly(run) ==
    run.status = "in_progress" \/ run.status = "queued"

IsPendingRun(run) ==
    run.status = "in_progress" \/ run.status = "queued" \/ run.conclusion = "null"

checkPullRequestStatus(remoteOk, checkRuns, state, nStatuses) ==
    IF ~remoteOk THEN "error"
    ELSE IF Len(checkRuns) > 0
         THEN IF \E i \in DOMAIN checkRuns : IsFailedRun(checkRuns[i])
              THEN "failure"
              ELSE IF \E i \in DOMAIN checkRuns : IsPendingRun(checkRuns[i])
                   THEN "pending"
                   ELSE "success"
         ELSE IF state = "pending" \/ state = "success" \/ nStatuses = 0
              THEN IF nStatuses = 0 THEN "success" ELSE state
              ELSE state

CheckRunLists == UNION { [1..n -> CheckRuns] : n \in 0..MaxCheckRuns }

\* ------------------------------------------------------------ open for review
\* variant: the status is written for every existing PR
NeedsInReviewWrite_Always(status) == TRUE

\* mr.ts: an existing PR short-circuits the command
NeedsInReviewWrite(status) == status # TICKET_STATUS_IN_REVIEW

StartMr ==
    /\ pc = "idle"
    /\ cmd' = "mr"
    /\ pc' = "m_pre"
    /\ exitCode' = "none"
    /\ log' = << >>
    /\ snap' = SnapAtStart
    /\ loc' = [LocInit EXCEPT !.resume = hist.prPartial]
    /\ hist' = [hist EXCEPT !.devClean = FALSE, !.mergedNotDone = FALSE]
    /\ UNCHANGED <<tracker, git, host>>

MrPreconditions ==
    /\ cmd = "mr" /\ pc = "m_pre"
    /\ \E ok \in BOOLEAN :
        IF ok THEN Goto("m_branch") ELSE End("0", log, FALSE)
    /\ UNCHANGED <<tracker, git, host, cmd, log, loc>>

\* getCurrentBranch and extractTicketIdFromBranchName
MrCurrentBranch ==
    /\ cmd = "mr" /\ pc = "m_branch"
    /\ IF currentBranch = Detached
       THEN End("0", log, FALSE) /\ loc' = loc
       ELSE IF extractTicketIdFromBranchName(currentBranch) = NoTicketId
            THEN End("0", log, FALSE) /\ loc' = loc
            ELSE loc' = [loc EXCEPT !.branch = currentBranch] /\ Goto("m_ticket")
    /\ UNCHANGED <<tracker, git, host, cmd, log>>

\* findTicketByTicketId
MrFindTicket ==
    /\ cmd = "mr" /\ pc = "m_ticket"
    /\ \E ok \in BOOLEAN :
        IF ~ok THEN End("1", log, FALSE) /\ loc' = loc
        ELSE IF extractTicketIdFromBranchName(loc.branch) # TicketIdOfModel
             THEN End("0", log, FALSE) /\ loc' = loc
             ELSE /\ loc' = [loc EXCEPT !.status = ticketStatus,
                                        !.ttype = ticketType]
                  /\ Goto("m_push")
    /\ UNCHANGED <<tracker, git, host, cmd, log>>

\* variant: a failed push is not looked at
MrPush_FailureIgnored ==
    /\ cmd = "mr" /\ pc = "m_push"
    /\ \E ok \in BOOLEAN :
        LET done == ok /\ currentBranch # Detached
        IN  /\ log' = Append(log, Entry("push", currentBranch, done))
            /\ IF done THEN PushCurrentEffect ELSE UNCHANGED git
            /\ Goto("m_repo")
    /\ UNCHANGED <<tracker, host, cmd, loc>>

MrPush ==
    /\ cmd = "mr" /\ pc = "m_push"
    /\ \E ok \in BOOLEAN :
        LET done == ok /\ currentBranch # Detached
            lg == Append(log, Entry("push", currentBranch, done))
        IN  /\ log' = lg
            /\ IF done THEN PushCurrentEffect /\ Goto("m_repo")
               ELSE UNCHANGED git /\ End("1", lg, FALSE)
    /\ UNCHANGED <<tracker, host, cmd, loc>>

\* getRepositoryInfo and getAuthenticatedUser
MrRepoInfo ==
    /\ cmd = "mr" /\ pc = "m_repo"
    /\ \E repoInfo \in BOOLEAN, user \in BOOLEAN :
        IF ~repoInfo THEN End("0", log, FALSE) /\ loc' = loc
        ELSE loc' = [loc EXCEPT !.authUser = user] /\ Goto("m_lookup")
    /\ UNCHANGED <<tracker, git, host, cmd, log>>

MrLookup ==
    /\ cmd = "mr" /\ pc = "m_lookup"
    /\ \E remoteOk \in BOOLEAN :
        LET existingPR == checkIfPullRequestExists(loc.branch, remoteOk)
        IN  /\ log' = Append(log, Entry("lookupPR", loc.branch, remoteOk))
            /\ loc' = [loc EXCEPT !.found = existingPR]
            /\ pc' = IF existingPR THEN "m_existing" ELSE "m_create"
    /\ UNCHANGED <<tracker, git, host, cmd, exitCode, hist, snap>>

\* the branch of an existing PR: the conditional status write, then return
MrExisting ==
    /\ cmd = "mr" /\ pc = "m_existing"
    /\ IF NeedsInReviewWrite(loc.status)
       THEN \E ok \in BOOLEAN :
              LET lg == Append(log,
                          Entry("writeStatus", TICKET_STATUS_IN_REVIEW, ok))
              IN  /\ log' = lg
                  /\ IF ok
                     THEN /\ ticketStatus' = TICKET_STATUS_IN_REVIEW
                          /\ End("0", lg, TRUE)
                     ELSE /\ ticketStatus' = ticketStatus
                          /\ End("1", lg, FALSE)
       ELSE /\ UNCHANGED <<log, ticketStatus>>
            /\ End("0", log, TRUE)
    /\ UNCHANGED <<ticketType, prLink, git, host, cmd, loc>>

\* variant: a PR creation that the code host rejects never returns
MrCreate_Waits ==
    /\ cmd = "mr" /\ pc = "m_create"
    /\ CreatePossible(loc.branch)
    /\ \E ok \in BOOLEAN :
        LET lg == Append(log, Entry("createPR", loc.branch, ok))
        IN  /\ log' = lg
            /\ IF ok
               THEN openPR' = openPR \cup {loc.branch} /\ Goto("m_label")
               ELSE openPR' = openPR /\ End("1", lg, FALSE)
    /\ UNCHANGED <<tracker, git, mergedPR, cmd, loc>>

MrCreate ==
    /\ cmd = "mr" /\ pc = "m_create"
    /\ \E ok \in BOOLEAN :
        LET done == ok /\ CreatePossible(loc.branch)
            lg == Append(log, Entry("createPR", loc.branch, done))
        IN  /\ log' = lg
            /\ IF done
               THEN openPR' = openPR \cup {loc.branch} /\ Goto("m_label")
               ELSE openPR' = openPR /\ End("1", lg, FALSE)
    /\ UNCHANGED <<tracker, git, mergedPR, cmd, loc>>

\* the category label: colour lookup, label check, creation, attachment
MrLabel ==
    /\ cmd = "mr" /\ pc = "m_label"
    /\ IF loc.ttype # Undefined /\ loc.ttype # << >>
       THEN \E colourOk \in BOOLEAN, ok \in BOOLEAN :
              LET labelColor == IF colourOk THEN "ca3431" ELSE "ededed"
                  lg == log \o <<Entry("labelColor", labelColor, colourOk),
                                 Entry("label", loc.ttype, ok)>>
              IN  /\ log' = lg
                  /\ IF ok THEN Goto("m_assign") ELSE End("1", lg, FALSE)
       ELSE log' = log /\ Goto("m_assign")
    /\ UNCHANGED <<tracker, git, host, cmd, loc>>

\* variant: a failed assignment ends the invocation
MrAssign_Fatal ==
    /\ cmd = "mr" /\ pc = "m_assign"
    /\ IF loc.authUser
       THEN \E ok \in BOOLEAN :
              LET lg == Append(log, Entry("assign", loc.branch, ok))
              IN  log' = lg /\ IF ok THEN Goto("m_link") ELSE End("1", lg, FALSE)
       ELSE log' = log /\ Goto("m_link")
    /\ UNCHANGED <<tracker, git, host, cmd, loc>>

\* assignUserToPullRequest swallows its failure
MrAssign ==
    /\ cmd = "mr" /\ pc = "m_assign"
    /\ IF loc.authUser
       THEN \E ok \in BOOLEAN : log' = Append(log, Entry("assign", loc.branch, ok))
       ELSE log' = log
    /\ Goto("m_link")
    /\ UNCHANGED <<tracker, git, host, cmd, loc>>

\* variant: a failed link write is issued a second time
MrWriteLink_Retry ==
    /\ cmd = "mr" /\ pc = "m_link"
    /\ \E ok \in BOOLEAN :
        LET lg == Append(log, Entry("writeLink", loc.branch, ok))
        IN  /\ log' = lg
            /\ IF ok THEN prLink' = TRUE /\ Goto("m_status")
               ELSE /\ prLink' = prLink
                    /\ IF Issued(log, "writeLink") THEN End("1", lg, FALSE)
                       ELSE Goto("m_link")
    /\ UNCHANGED <<ticketStatus, ticketType, git, host, cmd, loc>>

MrWriteLink ==
    /\ cmd = "mr" /\ pc = "m_link"
    /\ \E ok \in BOOLEAN :
        LET lg == Append(log, Entry("writeLink", loc.branch, ok))
        IN  /\ log' = lg
            /\ IF ok THEN prLink' = TRUE /\ Goto("m_status")
               ELSE prLink' = prLink /\ End("1", lg, FALSE)
    /\ UNCHANGED <<ticketStatus, ticketType, git, host, cmd, loc>>

MrUpdateStatus ==
    /\ cmd = "mr" /\ pc = "m_status"
    /\ \E ok \in BOOLEAN :
        LET lg == Append(log, Entry("writeStatus", TICKET_STATUS_IN_REVIEW, ok))
        IN  /\ log' = lg
            /\ IF ok
               THEN ticketStatus' = TICKET_STATUS_IN_REVIEW /\ End("0", lg, TRUE)
               ELSE ticketStatus' = ticketStatus /\ End("1", lg, FALSE)
    /\ UNCHANGED <<ticketType, prLink, git, host, cmd, loc>>


\* -------------------------------------------------------------------- finish
\* variant: an unknown mergeable flag is treated like false
DetailsBlock_NullBlocks(merged, mergeable) == merged \/ mergeable # "true"

\* finish.ts step 10: the two blocking answers of the PR details
DetailsBlock(merged, mergeable) == merged \/ mergeable = "false"

\* variant: only the failure state blocks, error passes
ChecksBlock_ErrorPasses(state) == state = "failure"

\* finish.ts step 11: the blocking aggregated states
ChecksBlock(state) == state = "failure" \/ state = "error"

StartFinish ==
    /\ pc = "idle"
    /\ cmd' = "finish"
    /\ pc' = "f_pre"
    /\ exitCode' = "none"
    /\ log' = << >>
    /\ snap' = SnapAtStart
    /\ loc' = [LocInit EXCEPT !.resume = hist.mergedNotDone]
    /\ hist' = [hist EXCEPT !.devClean = FALSE, !.prPartial = FALSE]
    /\ UNCHANGED <<tracker, git, host>>

\* steps 1-3: working copy, local and global configuration
FinishPreconditions ==
    /\ cmd = "finish" /\ pc = "f_pre"
    /\ \E ok \in BOOLEAN :
        IF ok THEN Goto("f_branch") ELSE End("1", log, FALSE)
    /\ UNCHANGED <<tracker, git, host, cmd, log, loc>>

\* step 4: current branch and ticket id
FinishCurrentBranch ==
    /\ cmd = "finish" /\ pc = "f_branch"
    /\ IF currentBranch = Detached
       THEN End("1", log, FALSE) /\ loc' = loc
       ELSE IF extractTicketIdFromBranchName(currentBranch) = NoTicketId
            THEN End("1", log, FALSE) /\ loc' = loc
            ELSE loc' = [loc EXCEPT !.branch = currentBranch] /\ Goto("f_ticket")
    /\ UNCHANGED <<tracker, git, host, cmd, log>>

\* steps 6-7: the ticket and the repository info
FinishFindTicket ==
    /\ cmd = "finish" /\ pc = "f_ticket"
    /\ \E ok \in BOOLEAN, repoInfo \in BOOLEAN :
        IF ~ok THEN End("1", log, FALSE) /\ loc' = loc
        ELSE IF extractTicketIdFromBranchName(loc.branch) # TicketIdOfModel
             THEN End("1", log, FALSE) /\ loc' = loc
             ELSE IF ~repoInfo THEN End("1", log, FALSE) /\ loc' = loc
                  ELSE /\ loc' = [loc EXCEPT !.status = ticketStatus,
                                             !.ttype = ticketType]
                       /\ Goto("f_lookup")
    /\ UNCHANGED <<tracker, git, host, cmd, log>>

\* step 8: the open PR of the current branch
FinishLookup ==
    /\ cmd = "finish" /\ pc = "f_lookup"
    /\ \E remoteOk \in BOOLEAN :
        LET existingPR == checkIfPullRequestExists(loc.branch, remoteOk)
            lg == Append(log, Entry("lookupPR", loc.branch, remoteOk))
        IN  /\ log' = lg
            /\ loc' = [loc EXCEPT !.found = existingPR]
            /\ IF existingPR THEN Goto("f_details") ELSE End("1", lg, FALSE)
    /\ UNCHANGED <<tracker, git, host, cmd>>

\* steps 9-10: PR details, merged and mergeable
FinishDetails ==
    /\ cmd = "finish" /\ pc = "f_details"
    /\ \E remoteOk \in BOOLEAN, mergeable \in {"true", "false", "null"} :
        IF ~remoteOk THEN End("1", log, FALSE) /\ loc' = loc
        ELSE /\ loc' = [loc EXCEPT !.mergeable = mergeable,
                                   !.merged = DetailsMerged(loc.branch)]
             /\ IF DetailsBlock(DetailsMerged(loc.branch), mergeable)
                THEN End("1", log, FALSE)
                ELSE Goto("f_checks")
    /\ UNCHANGED <<tracker, git, host, cmd, log>>

\* step 11: the aggregated check status
FinishChecks ==
    /\ cmd = "finish" /\ pc = "f_checks"
    /\ \E remoteOk \in BOOLEAN, runs \in CheckRunLists,
          state \in CombinedStates, n \in 0..MaxStatuses :
        LET checkStatus == checkPullRequestStatus(remoteOk, runs, state, n)
        IN  /\ loc' = [loc EXCEPT !.checkState = checkStatus]
            /\ IF ChecksBlock(checkStatus)
               THEN End("1", log, FALSE)
               ELSE Goto("f_confirm")
    /\ UNCHANGED <<tracker, git, host, cmd, log>>

\* variant: the answer of the confirmation prompt is not looked at
FinishConfirm_AnswerIgnored ==
    /\ cmd = "finish" /\ pc = "f_confirm"
    /\ \E confirmMerge \in BOOLEAN :
        /\ loc' = [loc EXCEPT !.gate = IF confirmMerge THEN "confirmed"
                                                      ELSE "declined"]
        /\ Goto("f_merge")
    /\ UNCHANGED <<tracker, git, host, cmd, log>>

\* step 12: the confirmation gate
FinishConfirm ==
    /\ cmd = "finish" /\ pc = "f_confirm"
    /\ \E confirmMerge \in BOOLEAN :
        /\ loc' = [loc EXCEPT !.gate = IF confirmMerge THEN "confirmed"
                                                      ELSE "declined"]
        /\ IF confirmMerge THEN Goto("f_merge") ELSE End("0", log, FALSE)
    /\ UNCHANGED <<tracker, git, host, cmd, log>>

\* variant: a rejected merge is not looked at
FinishMerge_FailureIgnored ==
    /\ cmd = "finish" /\ pc = "f_merge"
    /\ \E ok \in BOOLEAN :
        LET done == ok /\ MergePossible(loc.branch)
        IN  /\ log' = Append(log, Entry("merge", loc.branch, done))
            /\ IF done
               THEN /\ openPR' = openPR \ {loc.branch}
                    /\ mergedPR' = mergedPR \cup {loc.branch}
               ELSE UNCHANGED host
            /\ Goto("f_switch")
    /\ UNCHANGED <<tracker, git, cmd, loc>>

\* steps 13-14: commit messages, the edited body, the squash merge
FinishMerge ==
    /\ cmd = "finish" /\ pc = "f_merge"
    /\ \E ok \in BOOLEAN :
        LET done == ok /\ MergePossible(loc.branch)
            lg == Append(log, Entry("merge", loc.branch, done))
        IN  /\ log' = lg
            /\ IF done
               THEN /\ openPR' = openPR \ {loc.branch}
                    /\ mergedPR' = mergedPR \cup {loc.branch}
                    /\ Goto("f_switch")
               ELSE UNCHANGED host /\ End("1", lg, FALSE)
    /\ UNCHANGED <<tracker, git, cmd, loc>>

\* step 15, first call: switchToBranch(developmentBranch)
FinishSwitch ==
    /\ cmd = "finish" /\ pc = "f_switch"
    /\ \E ok \in BOOLEAN :
        LET done == ok /\ SwitchPossible(developmentBranch)
        IN  /\ log' = Append(log, Entry("switch", developmentBranch, done))
            /\ IF done
               THEN SwitchEffect(developmentBranch) /\ Goto("f_pull")
               ELSE UNCHANGED git /\ Goto("f_delremote")
    /\ UNCHANGED <<tracker, host, cmd, loc>>

\* step 15, second call: pullLatestChanges()
FinishPull ==
    /\ cmd = "finish" /\ pc = "f_pull"
    /\ \E ok \in BOOLEAN :
        LET done == ok /\ PullPossible
        IN  /\ log' = Append(log, Entry("pull", currentBranch, done))
            /\ PullEffect(done)
    /\ Goto("f_delremote")
    /\ UNCHANGED <<tracker, host, cmd, loc>>

\* variant: a failed remote deletion ends the invocation with exit code 1
FinishDeleteRemote_Fatal ==
    /\ cmd = "finish" /\ pc = "f_delremote"
    /\ \E ok \in BOOLEAN :
        LET done == ok /\ DeleteRemotePossible(loc.branch)
            lg == Append(log, Entry("deleteRemote", loc.branch, done))
        IN  /\ log' = lg
            /\ IF done
               THEN DeleteRemoteEffect(loc.branch) /\ Goto("f_dellocal")
               ELSE UNCHANGED git /\ End("1", lg, FALSE)
    /\ UNCHANGED <<tracker, host, cmd, loc>>

\* step 16, first call: deleteRemoteBranch(currentBranch)
FinishDeleteRemote ==
    /\ cmd = "finish" /\ pc = "f_delremote"
    /\ \E ok \in BOOLEAN :
        LET done == ok /\ DeleteRemotePossible(loc.branch)
        IN  /\ log' = Append(log, Entry("deleteRemote", loc.branch, done))
            /\ IF done
               THEN DeleteRemoteEffect(loc.branch) /\ Goto("f_dellocal")
               ELSE UNCHANGED git /\ Goto("f_status")
    /\ UNCHANGED <<tracker, host, cmd, loc>>

\* step 16, second call: deleteLocalBranch(currentBranch)
FinishDeleteLocal ==
    /\ cmd = "finish" /\ pc = "f_dellocal"
    /\ \E ok \in BOOLEAN :
        LET done == ok /\ DeleteLocalPossible(loc.branch)
        IN  /\ log' = Append(log, Entry("deleteLocal", loc.branch, done))
            /\ IF done THEN DeleteLocalEffect(loc.branch) ELSE UNCHANGED git
    /\ Goto("f_status")
    /\ UNCHANGED <<tracker, host, cmd, loc>>

\* step 17: the ticket status Done, then the final message
FinishUpdateStatus ==
    /\ cmd = "finish" /\ pc = "f_status"
    /\ \E ok \in BOOLEAN :
        LET lg == Append(log, Entry("writeStatus", TICKET_STATUS_DONE, ok))
        IN  /\ log' = lg
            /\ ticketStatus' = IF ok THEN TICKET_STATUS_DONE ELSE ticketStatus
            /\ End("0", lg, TRUE)
    /\ UNCHANGED <<ticketType, prLink, git, host, cmd, loc>>

\* ------------------------------------------------------------- environment
\* the process is killed between two of its calls
Crash ==
    /\ pc # "idle"
    /\ End("crash", log, FALSE)
    /\ UNCHANGED <<tracker, git, host, cmd, log, loc>>

External ==
    /\ hist' = HistInit
    /\ loc' = [loc EXCEPT !.resume = FALSE]
    /\ snap' = IF pc = "idle" THEN snap ELSE [snap EXCEPT !.ext = TRUE]

\* somebody edits the ticket status in the tracker, between two invocations
EnvSetStatus ==
    /\ pc = "idle"
    /\ \E s \in Statuses \ {ticketStatus} : ticketStatus' = s
    /\ External
    /\ UNCHANGED <<ticketType, prLink, git, host, cmd, pc, exitCode, log>>

\* somebody merges the open PR on the code host
EnvMergePR ==
    /\ \E h \in openPR :
        /\ openPR' = openPR \ {h}
        /\ mergedPR' = mergedPR \cup {h}
    /\ External
    /\ UNCHANGED <<tracker, git, cmd, pc, exitCode, log>>

\* the developer checks out another local branch, or detaches HEAD
EnvCheckout ==
    /\ pc = "idle"
    /\ \E b \in (localBranches \cup {Detached}) \ {currentBranch} :
        currentBranch' = b
    /\ External
    /\ UNCHANGED <<tracker, localBranches, trackingRefs, originBranches,
                   upstream, host, cmd, pc, exitCode, log>>

\* ----------------------------------------------------------- specification
Next ==
    \/ StartDev \/ DevPreconditions \/ DevFetchTickets \/ DevFindBranch
    \/ DevSwitch \/ DevPull \/ DevPromptDescription \/ DevCreateSwitchBase
    \/ DevCreatePullBase \/ DevCreateBranch \/ DevPublish \/ DevUpdateStatus
    \/ StartMr \/ MrPreconditions \/ MrCurrentBranch \/ MrFindTicket
    \/ MrPush \/ MrRepoInfo \/ MrLookup \/ MrExisting \/ MrCreate
    \/ MrLabel \/ MrAssign \/ MrWriteLink \/ MrUpdateStatus
    \/ StartFinish \/ FinishPreconditions \/ FinishCurrentBranch
    \/ FinishFindTicket \/ FinishLookup \/ FinishDetails \/ FinishChecks
    \/ FinishConfirm \/ FinishMerge \/ FinishSwitch \/ FinishPull
    \/ FinishDeleteRemote \/ FinishDeleteLocal \/ FinishUpdateStatus
    \/ Crash \/ EnvSetStatus \/ EnvMergePR \/ EnvCheckout

Spec == Init /\ [][Next]_vars

\* the steps of a running invocation: each call and each prompt of the
\* commands returns or fails
Step ==
    \/ DevPreconditions \/ DevFetchTickets \/ DevFindBranch
    \/ DevSwitch \/ DevPull \/ DevPromptDescription \/ DevCreateSwitchBase
    \/ DevCreatePullBase \/ DevCreateBranch \/ DevPublish \/ DevUpdateStatus
    \/ MrPreconditions \/ MrCurrentBranch \/ MrFindTicket
    \/ MrPush \/ MrRepoInfo \/ MrLookup \/ MrExisting \/ MrCreate
    \/ MrLabel \/ MrAssign \/ MrWriteLink \/ MrUpdateStatus
    \/ FinishPreconditions \/ FinishCurrentBranch
    \/ FinishFindTicket \/ FinishLookup \/ FinishDetails \/ FinishChecks
    \/ FinishConfirm \/ FinishMerge \/ FinishSwitch \/ FinishPull
    \/ FinishDeleteRemote \/ FinishDeleteLocal \/ FinishUpdateStatus

\* invocations one after the other, each started after the one before ended
\* with a return; between them the developer checks out a branch, and at any
\* time somebody merges the PR
LiveNext ==
    \/ exitCode \in {"none", "0"} /\ StartDev
    \/ exitCode \in {"none", "0"} /\ StartMr
    \/ exitCode \in {"none", "0"} /\ StartFinish
    \/ exitCode \in {"none", "0"} /\ EnvCheckout
    \/ exitCode \in {"none", "0"} /\ EnvMergePR
    \/ Step

LiveSpec == Init /\ [][LiveNext]_vars /\ WF_vars(Step)

TypeOK ==
    /\ ticketStatus \in Statuses
    /\ ticketType \in TicketTypes
    /\ prLink \in BOOLEAN
    /\ currentBranch \in localBranches \cup {Detached}
    /\ upstream \subseteq localBranches
    /\ cmd \in {"none", "dev", "mr", "finish"}
    /\ exitCode \in {"none", "0", "1", "crash"}
    /\ (pc = "idle") = (exitCode # "none" \/ cmd = "none")


\* ------------------------------------------------- the pure functions alone
\* utils.ts, the ticket id of notion.service mapPageToTicket and the check
\* aggregation of github.service are functions of their arguments only.  They
\* are run on their own here: cmd names the function, loc holds its
\* arguments, log collects what it returns; nothing else of the state moves.
MaxNameLen == 6
MaxDescLen == 3
MaxTicketNumber == 12
MaxRunsChecked == 2
MaxTickets == 3
PageSize == 2
MaxKeyTail == 5

SeqsUpTo(S, n) == UNION { [1..k -> S] : k \in 0..n }

\* branch names handed to extractTicketIdFromBranchName
NameChars == {"/", "a", "B", "-", "1", "_"}
BranchNames == SeqsUpTo(NameChars, MaxNameLen)

\* descriptions typed at the prompt: short ones, and the same after a run of
\* letters that brings them to the length limit
DescChars == {"a", "B", " ", "_", "!"}
ShortDescriptions == SeqsUpTo(DescChars, MaxDescLen)
LongRun == [i \in 1..(DescriptionMaxLen - 2) |-> "a"]
RawDescriptions ==
    ShortDescriptions \cup { LongRun \o d : d \in ShortDescriptions }

\* the validate function of promptForBranchDescription: input.trim() not empty
PromptAccepts(input) == \E i \in DOMAIN input : input[i] \notin SpaceChars

\* names of the "Type" select, undefined and the empty string
TypeWords == { <<"B","u","g">>, <<"b","u","g">>, <<"B","U","G">>, <<"b","u">>,
               <<"D","o","c","u","m","e","n","t","a","t","i","o","n">>,
               <<"d","o","k","u","m","e","n","t","a","t","i","o","n">>,
               <<"D","o","c">>, <<"F","e","a","t","u","r","e">>,
               <<"T","a","s","k">> }
TypePads == { << >>, <<"x">>, <<" ">>, <<"b","u","g">> }
RawTicketTypes ==
    {Undefined, << >>}
        \cup { a \o w \o b : a \in TypePads, w \in TypeWords, b \in TypePads }

\* unique_id of a page: the prefix set in the tracker and the number
UniqueIdPrefixes == { <<"A","B">>, <<"p">>, <<"P","2">> }
UniqueIdNumbers == 1..MaxTicketNumber

DigitSeq == <<"0","1","2","3","4","5","6","7","8","9">>

\* a number in a template literal: its decimal digits
RECURSIVE ToDecimal(_)
ToDecimal(n) ==
    IF n < 10 THEN <<DigitSeq[n + 1]>>
    ELSE ToDecimal(n \div 10) \o <<DigitSeq[(n % 10) + 1]>>

\* notion.service mapPageToTicket: ticketId of a page with a unique_id
mapPageToTicketId(prefix, number) == prefix \o <<"-">> \o ToDecimal(number)

\* the ticket whose branch findBranchWithTicketId looks for
ResolvedTicketId == <<"B", "-", "1">>

\* ticket ids of the pages of the tickets database, in the order of the query
Databases == SeqsUpTo({ <<"B", "-", "1">>, <<"a", "-", "1">> }, MaxTickets)

\* databases.query without a cursor answers with the first page of results
queryDatabase(database) ==
    SubSeq(database, 1, IF Len(database) < PageSize THEN Len(database)
                        ELSE PageSize)

NoTicket == << >>

\* notion.service findTicketByTicketId
findTicketByTicketId(database, ticketId) ==
    LET tickets == queryDatabase(database)
        hits == { i \in DOMAIN tickets : tickets[i] = ticketId }
    IN  IF hits = {} THEN NoTicket
        ELSE tickets[CHOOSE i \in hits : \A k \in hits : i <= k]

\* the "Status" property of a page: its type and the name of its option,
\* "" for a property without option
PropertyTypes == {"status", "select", "absent"}
StatusNames ==
    {TICKET_STATUS_BACKLOG, TICKET_STATUS_IN_PROGRESS, TICKET_STATUS_IN_REVIEW,
     TICKET_STATUS_DONE, "Blocked", ""}

\* notion.service mapPageToTicket: status of a page
mapPageToTicketStatus(type, name) ==
    IF type = "status" /\ name # "" THEN name ELSE DEFAULT_UNKNOWN_STATUS

\* the pull requests of the repository onto the development branch; the
\* code host keeps at most one of them open for a head
PullRequests ==
    { prs \in SeqsUpTo([number : {7, 12}, title : {<<"t">>, <<"u">>},
                        head : {buildBranchPrefix(Undefined, TicketIdOfModel),
                                buildBranchPrefix(Undefined, ResolvedTicketId)},
                        open : BOOLEAN], 2) :
        \A i, k \in DOMAIN prs :
            i # k => /\ prs[i].number # prs[k].number
                     /\ ~(prs[i].open /\ prs[k].open
                          /\ prs[i].head = prs[k].head) }

\* github.service checkIfPullRequestExists: the open PRs of the head
pullsList(prs, head) ==
    SelectSeq(prs, LAMBDA pr : pr.open /\ pr.head = head)

\* variant: the commit title is the PR title alone
commitTitle_NoNumber(title, number) == title

\* finish.ts step 14: the title of the squash commit
commitTitle(title, number) ==
    title \o <<" ", "(", "#">> \o ToDecimal(number) \o <<")">>

\* finish.ts step 13: the commit messages of the PR, none when the call
\* failed, as the lines of the proposed body
defaultCommitBody(commitsOk, commits) ==
    LET messages == IF commitsOk THEN commits ELSE << >>
    IN  IF messages = << >> THEN <<"* No commit messages found">>
        ELSE [i \in DOMAIN messages |-> "* " \o messages[i]]

\* github.service mergePullRequest: the request sent to the code host
mergePullRequest(pullNumber, title, body) ==
    [pull_number |-> pullNumber, commit_title |-> title,
     commit_message |-> body, merge_method |-> "squash"]

\* global-config.service validateNotionApiKey / validateGithubApiKey:
\* /^ntn_[a-zA-Z0-9]+$/ and /^ghp_[a-zA-Z0-9]+$/
validateApiKey(prefix, key) ==
    /\ Len(key) > Len(prefix)
    /\ SubSeq(key, 1, Len(prefix)) = prefix
    /\ \A i \in (Len(prefix) + 1)..Len(key) : IsLetter(key[i]) \/ IsDigit(key[i])

\* global-config.service maskApiKey
maskApiKey(key) ==
    IF Len(key) <= 8 THEN key
    ELSE SubSeq(key, 1, 4) \o [i \in 1..(Len(key) - 8) |-> "*"]
            \o SubSeq(key, Len(key) - 3, Len(key))

\* a configuration file that does not exist
NoConfig == [exists |-> FALSE]

\* variant: setup asks and writes although the configuration exists
setupMain_Overwrite(global, answers, ok) ==
    IF ok THEN [calls |-> <<"prompt", "write">>, config |-> answers]
    ELSE [calls |-> <<"prompt">>, config |-> global]

\* setup.ts setupMain: the prompts and writes it issues and the global
\* configuration it leaves; ok is whether the prompt returned
setupMain(global, answers, ok) ==
    IF global # NoConfig THEN [calls |-> << >>, config |-> global]
    ELSE IF ok THEN [calls |-> <<"prompt", "write">>, config |-> answers]
         ELSE [calls |-> <<"prompt">>, config |-> global]

\* init.ts initMain; ok is whether the tracker answered every lookup with a
\* value and the prompts returned
initMain(local, global, answers, ok) ==
    IF local # NoConfig THEN [calls |-> << >>, config |-> local]
    ELSE IF global = NoConfig THEN [calls |-> << >>, config |-> local]
         ELSE IF ok THEN [calls |-> <<"prompt", "write">>, config |-> answers]
              ELSE [calls |-> <<"prompt">>, config |-> local]

\* init.ts initEdit: an empty answer keeps the current value
initEdit(local, answers, ok) ==
    IF local = NoConfig THEN [calls |-> << >>, config |-> local]
    ELSE IF ~ok THEN [calls |-> <<"prompt">>, config |-> local]
         ELSE [calls |-> <<"prompt", "write">>,
               config |->
                 [projectId |-> local.projectId,
                  ticketsDatabaseId |-> local.ticketsDatabaseId,
                  ticketPrefix |-> IF answers.ticketPrefix = ""
                                   THEN local.ticketPrefix
                                   ELSE answers.ticketPrefix,
                  developmentBranch |-> IF answers.developmentBranch = ""
                                        THEN local.developmentBranch
                                        ELSE answers.developmentBranch]]

UtilArgs ==
    [fn : {"extract"}, branchName : BranchNames]
        \cup [fn : {"sanitize"}, description : RawDescriptions]
        \cup [fn : {"prefix"}, ticketType : RawTicketTypes]
        \cup [fn : {"checks"}, checkRuns : SeqsUpTo(CheckRuns, MaxRunsChecked),
              state : CombinedStates, nStatuses : 0..MaxStatuses]
        \cup [fn : {"compose"}, prefix : UniqueIdPrefixes,
              number : UniqueIdNumbers, ticketType : TicketTypes,
              description : { d \in ShortDescriptions : PromptAccepts(d) }]
        \cup [fn : {"resolve"}, ticketId : {ResolvedTicketId},
              branchName : BranchNames]
        \cup [fn : {"switch"}, branchName : {ResolvedTicketId \o <<"_">>},
              local : BOOLEAN, tracked : BOOLEAN, ok : BOOLEAN]
        \cup [fn : {"findTicket"}, database : Databases,
              ticketId : {ResolvedTicketId}]
        \cup [fn : {"status"}, type : PropertyTypes, name : StatusNames]
        \cup [fn : {"mask"},
              key : { p \o t : p \in {<<"n", "t", "n", "_">>,
                                      <<"g", "h", "p", "_">>, << >>},
                              t \in SeqsUpTo({"a", "1", "-"}, MaxKeyTail) }]
        \cup [fn : {"setup"}, ok : BOOLEAN,
              global : {NoConfig, [notionApiKey |-> "ntn_a"]},
              answers : {[notionApiKey |-> "ntn_b"]}]
        \cup [fn : {"init", "initEdit"}, ok : BOOLEAN,
              global : {NoConfig, [notionApiKey |-> "ntn_a"]},
              local : {NoConfig} \cup
                  [projectId : {"p1"}, ticketsDatabaseId : {"d1"},
                   ticketPrefix : {"AB"}, developmentBranch : {"develop"}],
              answers : [projectId : {"p2"}, ticketsDatabaseId : {"d2"},
                         ticketPrefix : {"", "CD"},
                         developmentBranch : {"", "main"}]]
        \cup [fn : {"merge"}, prs : PullRequests,
              head : {buildBranchPrefix(Undefined, TicketIdOfModel)},
              commitsOk : BOOLEAN, commits : {<< >>, <<"c">>, <<"c", "d">>},
              edited : {<< >>, <<"e">>}]

\* the branches of the working copy that the git functions are run on
UtilLocalBranches(args) ==
    IF args.fn = "resolve" \/ (args.fn = "switch" /\ args.local)
    THEN {args.branchName} ELSE {}

UtilTrackingRefs(args) ==
    IF args.fn = "switch" /\ args.tracked THEN {args.branchName} ELSE {}

UtilInit ==
    /\ loc \in UtilArgs
    /\ ticketStatus = TICKET_STATUS_BACKLOG
    /\ ticketType = Undefined
    /\ prLink = FALSE
    /\ localBranches = {developmentBranch} \cup UtilLocalBranches(loc)
    /\ trackingRefs = {developmentBranch} \cup UtilTrackingRefs(loc)
    /\ originBranches = {developmentBranch} \cup UtilTrackingRefs(loc)
    /\ upstream = {developmentBranch}
    /\ currentBranch = developmentBranch
    /\ openPR = {}
    /\ mergedPR = {}
    /\ cmd = loc.fn
    /\ pc = "call"
    /\ exitCode = "none"
    /\ log = << >>
    /\ snap = NoSnap
    /\ hist = HistInit

UtilFrame ==
    UNCHANGED <<tracker, git, host, cmd, exitCode, loc, snap, hist>>

CallExtractTicketId ==
    /\ cmd = "extract" /\ pc = "call"
    /\ log' = <<extractTicketIdFromBranchName(loc.branchName)>>
    /\ pc' = "done"
    /\ UtilFrame

CallSanitize ==
    /\ cmd = "sanitize" /\ pc = "call"
    /\ log' = <<sanitizeDescription(loc.description)>>
    /\ pc' = "again"
    /\ UtilFrame

\* the function applied to its own result
CallSanitizeAgain ==
    /\ cmd = "sanitize" /\ pc = "again"
    /\ log' = Append(log, sanitizeDescription(log[1]))
    /\ pc' = "done"
    /\ UtilFrame

CallBuildBranchPrefix ==
    /\ cmd = "prefix" /\ pc = "call"
    /\ log' = <<buildBranchPrefix(loc.ticketType, TicketIdOfModel)>>
    /\ pc' = "done"
    /\ UtilFrame

CallCheckPullRequestStatus ==
    /\ cmd = "checks" /\ pc = "call"
    /\ log' = <<checkPullRequestStatus(TRUE, loc.checkRuns, loc.state,
                                       loc.nStatuses)>>
    /\ pc' = "done"
    /\ UtilFrame

\* dev.ts: the branch name of a new branch, from the selected ticket
CallComposeBranchName ==
    /\ cmd = "compose" /\ pc = "call"
    /\ LET ticketId == mapPageToTicketId(loc.prefix, loc.number)
       IN  log' = <<ticketId,
                    buildBranchPrefix(loc.ticketType, ticketId)
                        \o sanitizeDescription(loc.description)>>
    /\ pc' = "composed"
    /\ UtilFrame

\* mr.ts, finish.ts: the ticket id read back from the branch name
CallExtractComposed ==
    /\ cmd = "compose" /\ pc = "composed"
    /\ log' = Append(log, extractTicketIdFromBranchName(log[2]))
    /\ pc' = "done"
    /\ UtilFrame

\* dev.ts: the branch that start work switches to, none as the empty log
CallFindBranchWithTicketId ==
    /\ cmd = "resolve" /\ pc = "call"
    /\ LET c == findBranchWithTicketId(loc.ticketId)
       IN  IF c = {} THEN log' = << >> ELSE \E b \in c : log' = <<b>>
    /\ pc' = "done"
    /\ UtilFrame

CallSwitchToBranch ==
    /\ cmd = "switch" /\ pc = "call"
    /\ LET done == loc.ok /\ SwitchPossible(loc.branchName)
       IN  /\ log' = <<Entry("switch", loc.branchName, done)>>
           /\ IF done THEN SwitchEffect(loc.branchName) ELSE UNCHANGED git
    /\ pc' = "done"
    /\ UNCHANGED <<tracker, host, cmd, exitCode, loc, snap, hist>>

CallFindTicketByTicketId ==
    /\ cmd = "findTicket" /\ pc = "call"
    /\ log' = <<findTicketByTicketId(loc.database, loc.ticketId)>>
    /\ pc' = "done"
    /\ UtilFrame

CallMapPageToTicketStatus ==
    /\ cmd = "status" /\ pc = "call"
    /\ log' = <<mapPageToTicketStatus(loc.type, loc.name)>>
    /\ pc' = "done"
    /\ UtilFrame

\* finish.ts steps 8, 9, 13 and 14: the PR of the current branch, its
\* details, the proposed and the edited body, the merge request
CallFinishMerge ==
    /\ cmd = "merge" /\ pc = "call"
    /\ LET found == pullsList(loc.prs, loc.head)
       IN  IF found = << >> THEN log' = << >>
           ELSE LET prDetails == found[1]
                    proposed == defaultCommitBody(loc.commitsOk, loc.commits)
                    commitBody == IF loc.edited = << >> THEN proposed
                                  ELSE loc.edited
                IN  log' = <<proposed,
                             mergePullRequest(prDetails.number,
                                 commitTitle(prDetails.title, prDetails.number),
                                 commitBody)>>
    /\ pc' = "done"
    /\ UtilFrame

\* setup status: the API key as it is displayed
CallMaskApiKey ==
    /\ cmd = "mask" /\ pc = "call"
    /\ log' = <<maskApiKey(loc.key)>>
    /\ pc' = "done"
    /\ UtilFrame

\* devotion setup, devotion init and devotion init edit
CallConfigCommand ==
    /\ cmd \in {"setup", "init", "initEdit"} /\ pc = "call"
    /\ log' = << CASE cmd = "setup" ->
                        setupMain(loc.global, loc.answers, loc.ok)
                   [] cmd = "init" ->
                        initMain(loc.local, loc.global, loc.answers, loc.ok)
                   [] cmd = "initEdit" ->
                        initEdit(loc.local, loc.answers, loc.ok) >>
    /\ pc' = "done"
    /\ UtilFrame

UtilNext ==
    \/ CallExtractTicketId \/ CallSanitize \/ CallSanitizeAgain
    \/ CallBuildBranchPrefix \/ CallCheckPullRequestStatus
    \/ CallComposeBranchName \/ CallExtractComposed
    \/ CallFindBranchWithTicketId \/ CallSwitchToBranch
    \/ CallFindTicketByTicketId \/ CallMapPageToTicketStatus
    \/ CallFinishMerge \/ CallMaskApiKey \/ CallConfigCommand

UtilSpec == UtilInit /\ [][UtilNext]_vars


\* ------------------------------------------- start work, two working copies
\* Start work alone, in a working copy that shares the remote with another
\* one: the other copy publishes a branch for the same ticket, and this copy
\* learns about the branches of the remote only when it fetches or pulls.
OtherCopyBranch == buildBranchPrefix(Undefined, TicketIdOfModel) \o <<"o">>

TicketBranches(branches) ==
    { b \in branches : BranchMatches(b, TicketIdOfModel) }

\* start work in the other working copy, which found no branch on the remote
EnvPublishElsewhere ==
    /\ pc = "idle"
    /\ TicketBranches(originBranches) = {}
    /\ originBranches' = originBranches \cup {OtherCopyBranch}
    /\ External
    /\ UNCHANGED <<tracker, localBranches, trackingRefs, upstream,
                   currentBranch, host, cmd, pc, exitCode, log>>

\* git fetch in this working copy
EnvFetch ==
    /\ pc = "idle"
    /\ ~(originBranches \subseteq trackingRefs)
    /\ trackingRefs' = trackingRefs \cup originBranches
    /\ External
    /\ UNCHANGED <<tracker, localBranches, originBranches, upstream,
                   currentBranch, host, cmd, pc, exitCode, log>>

DevNext ==
    \/ StartDev \/ DevPreconditions \/ DevFetchTickets \/ DevFindBranch
    \/ DevSwitch \/ DevPull \/ DevPromptDescription \/ DevCreateSwitchBase
    \/ DevCreatePullBase \/ DevCreateBranch \/ DevPublish \/ DevUpdateStatus
    \/ Crash \/ EnvCheckout \/ EnvPublishElsewhere \/ EnvFetch

DevSpec == Init /\ [][DevNext]_vars


\* ------------------------------------------------------------------ claims
MutatingOps == {"switch", "pull", "createBranch", "publish", "push", "createPR",
                "label", "assign", "writeLink", "writeStatus", "merge",
                "deleteRemote", "deleteLocal"}

\* the call that a step adds to the log, if it adds one
Issues(op) == Len(log') = Len(log) + 1 /\ log'[Len(log')].op = op

\* C1: open for review, run while the PR of an earlier run is open for
\* (head, base), issues no PR creation call, whatever the lookup answered.
C1_SecondRunIssuesNoCreation ==
    [][(cmd = "mr" /\ loc.branch \in openPR) => ~Issues("createPR")]_vars

\* C2: a second run of start work right after a completed one, with no
\* external change in between, issues nothing but switch-to-branch and pull:
\* no branch creation, no publish and no ticket status write.
C2_DevRerunOnlySwitchAndPull ==
    (cmd = "dev" /\ loc.resume) =>
        \A i \in DOMAIN log :
            /\ log[i].op \in {"switch", "pull"}
            /\ BranchMatches(log[i].arg, TicketIdOfModel)

C2_Witness ==
    /\ cmd = "dev" /\ loc.resume /\ pc = "idle" /\ exitCode = "0"
    /\ IssuedOk(log, "switch") /\ IssuedOk(log, "pull")

\* C3: finish never issues the merge call when mergeable is false and never
\* gets to the confirmation gate then; with mergeable null, a PR that is not
\* merged and a check state that does not block, the run is not ended before
\* the confirmation gate.
C3_MergeableGate ==
    cmd = "finish" =>
        /\ loc.mergeable = "false" =>
              ~Issued(log, "merge") /\ loc.gate = "unasked" /\ exitCode = "1"
        /\ (loc.mergeable = "null" /\ ~loc.merged /\ exitCode \in {"0", "1"}) =>
              \/ ChecksBlock(loc.checkState)
              \/ loc.checkState # "unread" /\ loc.gate # "unasked"

C3_Witness ==
    /\ cmd = "finish" /\ loc.mergeable = "null" /\ ~loc.merged
    /\ loc.gate = "declined" /\ exitCode = "0"

\* C4: finish never issues the merge call when the aggregated check state is
\* failure or error, and ends with exit code 1 before the confirmation gate;
\* a state of pending or success does not end the run, which gets to the
\* confirmation gate.
C4_CheckStateGate ==
    cmd = "finish" =>
        /\ loc.checkState \in {"failure", "error"} =>
              ~Issued(log, "merge") /\ loc.gate = "unasked" /\ exitCode = "1"
        /\ (loc.checkState \in {"pending", "success"} /\ exitCode \in {"0", "1"}) =>
              loc.gate # "unasked"
        /\ Issued(log, "merge") => loc.checkState \in {"pending", "success"}

C4_Witness ==
    /\ cmd = "finish" /\ loc.checkState = "pending"
    /\ loc.gate = "confirmed" /\ IssuedOk(log, "merge")

\* C5: after the confirmation the merge is the only fatal step of finish: a
\* failed merge ends the invocation with exit code 1 and no cleanup call; after
\* a successful merge the invocation never ends with exit code 1, and when it
\* ends each cleanup step (switch to the development branch, branch deletion,
\* ticket status Done) has been attempted.
C5_OnlyMergeIsFatal ==
    (cmd = "finish" /\ loc.gate = "confirmed") =>
        /\ (Issued(log, "merge") /\ ~IssuedOk(log, "merge")) =>
              /\ pc = "idle" /\ exitCode = "1"
              /\ \A i \in DOMAIN log : log[i].op \in {"lookupPR", "merge"}
        /\ IssuedOk(log, "merge") => exitCode # "1"
        /\ exitCode = "1" => Issued(log, "merge") /\ ~IssuedOk(log, "merge")
        /\ exitCode = "0" =>
              /\ IssuedOk(log, "merge")
              /\ Issued(log, "switch")
              /\ Issued(log, "deleteRemote")
              /\ StatusWritten(log, TICKET_STATUS_DONE)

C5_Witness ==
    /\ cmd = "finish" /\ exitCode = "0" /\ IssuedOk(log, "merge")
    /\ Issued(log, "switch") /\ ~IssuedOk(log, "switch")
    /\ Issued(log, "deleteRemote") /\ ~IssuedOk(log, "deleteRemote")
    /\ StatusWritten(log, TICKET_STATUS_DONE)

\* C6: declining the merge confirmation ends finish with exit code 0, and
\* the invocation has changed nothing: it issued no mutating call, and the
\* tracker, the branches and the code host are as they were at its start
\* unless somebody else changed them meanwhile.
C6_DeclineChangesNothing ==
    [][(cmd = "finish" /\ loc'.gate = "declined") =>
          /\ pc' = "idle" /\ exitCode' = "0"
          /\ \A i \in DOMAIN log' : log'[i].op \notin MutatingOps
          /\ (pc = "f_confirm" /\ ~snap.ext) => World' = snap.world]_vars

C6_Witness ==
    /\ cmd = "finish" /\ loc.gate = "declined" /\ pc = "idle"
    /\ exitCode = "0" /\ Issued(log, "lookupPR")

\* C7: a ticket status write is issued only after the action that justifies
\* it succeeded in the same invocation: In progress after switch and pull of
\* the ticket's branch or after its creation and publish, In review after a PR was found or created,
\* Done after the merge; each command writes no other status.
OkBefore(op, j) == \E i \in 1..(j - 1) : log[i].op = op /\ log[i].ok

\* the same, for a call on a branch of the ticket
OkBeforeOnTicketBranch(op, j) ==
    \E i \in 1..(j - 1) :
        /\ log[i].op = op /\ log[i].ok
        /\ BranchMatches(log[i].arg, TicketIdOfModel)

C7_StatusWriteAfterJustification ==
    \A j \in DOMAIN log :
        log[j].op = "writeStatus" =>
            \/ /\ cmd = "dev" /\ log[j].arg = TICKET_STATUS_IN_PROGRESS
               /\ \/ /\ OkBeforeOnTicketBranch("switch", j)
                     /\ OkBeforeOnTicketBranch("pull", j)
                  \/ /\ OkBeforeOnTicketBranch("createBranch", j)
                     /\ OkBeforeOnTicketBranch("publish", j)
            \/ /\ cmd = "mr" /\ log[j].arg = TICKET_STATUS_IN_REVIEW
               /\ loc.found \/ OkBefore("createPR", j)
            \/ /\ cmd = "finish" /\ log[j].arg = TICKET_STATUS_DONE
               /\ OkBefore("merge", j)

C7_Witness ==
    /\ cmd = "dev" /\ IssuedOk(log, "createBranch") /\ IssuedOk(log, "publish")
    /\ StatusWrittenOk(log, TICKET_STATUS_IN_PROGRESS)

\* C8: open for review rerun after an invocation that stopped after the PR
\* creation, with no external change, all of its calls succeeding and running
\* to its end, leaves exactly the state of an uninterrupted run: the PR open,
\* the PR url written to the ticket, the ticket In review.
C8_MrResumable ==
    (/\ cmd = "mr" /\ loc.resume /\ pc = "idle" /\ exitCode = "0"
     /\ IssuedOk(log, "lookupPR") /\ \A i \in DOMAIN log : log[i].ok) =>
        /\ loc.branch \in openPR
        /\ prLink
        /\ ticketStatus = TICKET_STATUS_IN_REVIEW

\* C9: finish rerun on the ticket branch after an invocation that stopped
\* between the successful merge and the status write, with no external change
\* and all of its calls succeeding, leaves the ticket Done.
C9_FinishResumable ==
    (/\ cmd = "finish" /\ loc.resume /\ pc = "idle" /\ exitCode \in {"0", "1"}
     /\ IssuedOk(log, "lookupPR") /\ \A i \in DOMAIN log : log[i].ok) =>
        ticketStatus = TICKET_STATUS_DONE

\* C10: a failed lookup of the existing PR is never taken for "no PR": open
\* for review issues no PR creation call after a lookup that failed.
C10_LookupFailureNotAbsence ==
    cmd = "mr" =>
        \A i \in DOMAIN log, j \in DOMAIN log :
            ~(i < j /\ log[i].op = "lookupPR" /\ ~log[i].ok
                    /\ log[j].op = "createPR")

\* the steps at which a command checks what it needs before it acts:
\* configuration and working copy, current branch and ticket id, the ticket,
\* the repository of the remote, the open PR
PreconditionSteps ==
    {"d_pre", "m_pre", "m_branch", "m_ticket", "m_repo",
     "f_pre", "f_branch", "f_ticket", "f_lookup"}

\* C11: an invocation of start work, open for review or finish that ends at
\* a precondition check (configuration, working copy, ticket id of the branch
\* name, ticket, PR) never ends with exit code 0.
C11_PreconditionFailureNonZero ==
    [][(pc \in PreconditionSteps /\ pc' = "idle") => exitCode' # "0"]_vars

\* C12: an invocation of open for review or finish that ends at a
\* precondition check has issued no mutating call: no push, no PR creation,
\* no merge, no branch operation, no ticket write.
C12_PreconditionFailureNoMutation ==
    [][(/\ cmd \in {"mr", "finish"} /\ pc \in PreconditionSteps
        /\ pc' = "idle" /\ exitCode' \in {"0", "1"}) =>
          \A i \in DOMAIN log' : log'[i].op \notin MutatingOps]_vars

\* C13: in the branch cleanup of finish the local deletion of the merged
\* branch is attempted whenever the remote deletion was, also when the remote
\* deletion failed.
C13_LocalDeletionIndependent ==
    (/\ cmd = "finish" /\ Issued(log, "deleteRemote")
     /\ pc = "f_status" \/ (pc = "idle" /\ exitCode = "0")) =>
        Issued(log, "deleteLocal")

C19_DevAssignsTicket ==
    [][(cmd = "dev" /\ pc = "d_status" /\ pc' = "idle" /\ exitCode' = "0") =>
          \E i \in DOMAIN log' : log'[i].op = "assignTicket"]_vars

\* one or more letters, a hyphen, one or more digits
IsTicketIdShape(s) ==
    \E h \in DOMAIN s :
        /\ s[h] = "-" /\ 1 < h /\ h < Len(s)
        /\ \A i \in 1..(h - 1) :
              s[i] \in Range(UpperChars) \cup Range(LowerChars)
        /\ \A i \in (h + 1)..Len(s) : s[i] \in DigitChars

\* the text between the '/' at i and the '_' at j, the first '_' after i
IsSegment(name, i, j) ==
    /\ i \in DOMAIN name /\ j \in DOMAIN name /\ i < j
    /\ name[i] = "/" /\ name[j] = "_"
    /\ \A k \in (i + 1)..(j - 1) : name[k] # "_"

\* C15: for a branch name {cat}/{ID}_{desc}, cat without '/', ID of the
\* shape letters-hyphen-digits, extractTicketId returns ID; it returns none
\* when no segment between a '/' and the following '_' has that shape; and
\* what it returns is none or of that shape.
C15_ExtractTicketId ==
    (cmd = "extract" /\ pc = "done") =>
        LET name == loc.branchName
            result == log[1]
        IN  /\ \A i \in DOMAIN name, j \in DOMAIN name :
                  (/\ IsSegment(name, i, j)
                   /\ \A k \in 1..(i - 1) : name[k] # "/"
                   /\ IsTicketIdShape(SubSeq(name, i + 1, j - 1))) =>
                      result = SubSeq(name, i + 1, j - 1)
            /\ (~\E i \in DOMAIN name, j \in DOMAIN name :
                    /\ IsSegment(name, i, j)
                    /\ IsTicketIdShape(SubSeq(name, i + 1, j - 1))) =>
                  result = NoTicketId
            /\ result # NoTicketId => IsTicketIdShape(result)

C15_Witness ==
    /\ cmd = "extract" /\ pc = "done"
    /\ loc.branchName = <<"a", "/", "B", "-", "1", "_">>
    /\ log[1] = <<"B", "-", "1">>

\* C16: sanitize applied to its own result returns that result, and a result
\* consists of a-z, 0-9 and '_' only, neither starts nor ends with '_', has no
\* two '_' in a row and is at most 50 characters long.
C16_SanitizeIdempotentWellFormed ==
    (cmd = "sanitize" /\ pc = "done") =>
        LET out == log[1]
        IN  /\ log[2] = out
            /\ \A i \in DOMAIN out :
                  out[i] \in Range(LowerChars) \cup DigitChars \cup {"_"}
            /\ out # << >> => out[1] # "_" /\ out[Len(out)] # "_"
            /\ \A i \in 1..(Len(out) - 1) : ~(out[i] = "_" /\ out[i + 1] = "_")
            /\ Len(out) <= DescriptionMaxLen

\* the category of a branch prefix: what stands before its first '/'
CategoryOf(branchPrefix) ==
    LET slashes == { i \in DOMAIN branchPrefix : branchPrefix[i] = "/" }
    IN  IF slashes = {} THEN branchPrefix
        ELSE SubSeq(branchPrefix, 1,
                    (CHOOSE i \in slashes : \A k \in slashes : i <= k) - 1)

Categories == { <<"f","e","a","t","u","r","e">>, <<"b","u","g","f","i","x">>,
                <<"d","o","c">> }

Keywords == { <<"b","u","g">>,
              <<"d","o","c","u","m","e","n","t","a","t","i","o","n">>,
              <<"d","o","k","u","m","e","n","t","a","t","i","o","n">> }

SameLetter(c, k) ==
    c = k \/ \E i \in DOMAIN UpperChars : UpperChars[i] = c /\ LowerChars[i] = k

ContainsKeyword(type) ==
    \E kw \in Keywords : \E i \in 0..(Len(type) - Len(kw)) :
        \A k \in 1..Len(kw) : SameLetter(type[i + k], kw[k])

\* C17: for every ticket type, undefined and the empty string included, the
\* category of the derived prefix is one of feature, bugfix, doc, and it is
\* feature when the type contains none of bug, documentation, dokumentation
\* in any letter case.
C17_DerivePrefixTotal ==
    (cmd = "prefix" /\ pc = "done") =>
        /\ CategoryOf(log[1]) \in Categories
        /\ log[1] = CategoryOf(log[1]) \o <<"/">> \o TicketIdOfModel \o <<"_">>
        /\ (loc.ticketType = Undefined \/ ~ContainsKeyword(loc.ticketType)) =>
              CategoryOf(log[1]) = <<"f","e","a","t","u","r","e">>

C17_Witness ==
    /\ cmd = "prefix" /\ pc = "done"
    /\ loc.ticketType = Undefined
    /\ CategoryOf(log[1]) = <<"f","e","a","t","u","r","e">>

\* C18: the aggregated check status is failure when a check run concluded
\* failure, cancelled or timed_out; else pending when a check run is queued,
\* in progress or without conclusion; else success when there is a check run;
\* with no check run it is success for zero legacy statuses and the legacy
\* combined state otherwise.
C18_CheckStatusPrecedence ==
    (cmd = "checks" /\ pc = "done") =>
        LET runs == loc.checkRuns
            failed == \E i \in DOMAIN runs :
                        runs[i].conclusion \in {"failure", "cancelled", "timed_out"}
            pending == \E i \in DOMAIN runs :
                         \/ runs[i].status \in {"queued", "in_progress"}
                         \/ runs[i].conclusion = "null"
        IN  log[1] = IF failed THEN "failure"
                     ELSE IF pending THEN "pending"
                     ELSE IF Len(runs) > 0 THEN "success"
                     ELSE IF loc.nStatuses = 0 THEN "success"
                     ELSE loc.state

C18_Witness ==
    /\ cmd = "checks" /\ pc = "done"
    /\ Len(loc.checkRuns) = 2
    /\ loc.checkRuns[1] = [status |-> "completed", conclusion |-> "success"]
    /\ loc.checkRuns[2] = [status |-> "completed", conclusion |-> "null"]
    /\ log[1] = "pending"

\* C20: the branch name start work composes for a ticket id PREFIX-NUMBER of
\* the tracker, a ticket type and an accepted description is
\* {category}/{T}_{sanitized description}, and extractTicketId gives T back.
C20_BranchNameRoundTrip ==
    (cmd = "compose" /\ pc = "done") =>
        /\ \E cat \in Categories :
              log[2] = cat \o <<"/">> \o log[1] \o <<"_">>
                           \o sanitizeDescription(loc.description)
        /\ log[3] = log[1]

\* C21: when a branch of the ticket is on the remote while start work
\* resolves the branch, the resolution returns a branch and start work creates
\* none, also when that branch was published from the other working copy
\* after this one last synchronised; and the remote never holds two different
\* branches of the ticket.
C21_ResolutionFresh ==
    /\ [][(/\ cmd = "dev" /\ pc = "d_find" /\ pc' \in {"d_prompt", "d_switch"}
           /\ TicketBranches(originBranches) # {}) => loc'.found]_vars
    /\ [](Cardinality(TicketBranches(originBranches)) <= 1)

\* C24: in start work every branch creation comes right after a successful
\* switch to the development branch and a successful pull of it, in this
\* order; after a failed switch or pull nothing more is issued (no branch
\* creation, no publish, no status write) and the new branch does not exist.
C24_CreateFromBaseFirst ==
    cmd = "dev" =>
        /\ \A j \in DOMAIN log :
              log[j].op = "createBranch" =>
                  /\ j >= 3
                  /\ log[j - 2] = Entry("switch", developmentBranch, TRUE)
                  /\ log[j - 1] = Entry("pull", developmentBranch, TRUE)
        /\ \A i \in DOMAIN log :
              (log[i].op \in {"switch", "pull"} /\ ~log[i].ok) =>
                  /\ i = Len(log)
                  /\ pc = "idle"
                  /\ ~loc.found => loc.branch \notin localBranches

C24_Witness ==
    /\ cmd = "dev" /\ ~loc.found /\ pc = "idle" /\ exitCode = "1"
    /\ Len(log) = 2
    /\ log[1] = Entry("switch", developmentBranch, TRUE)
    /\ log[2] = Entry("pull", developmentBranch, FALSE)
    /\ loc.branch \notin localBranches

\* C25: when the resolution reports no branch, start work that gets to its
\* end has created the composed branch and published it; every publish call
\* comes right after the successful creation of the branch it names, and
\* there is none when a branch was found.
C25_PublishAfterCreation ==
    cmd = "dev" =>
        /\ \A j \in DOMAIN log :
              log[j].op = "publish" =>
                  /\ ~loc.found
                  /\ j >= 2
                  /\ log[j - 1] = Entry("createBranch", log[j].arg, TRUE)
                  /\ log[j].arg = loc.branch
        /\ (~loc.found /\ Issued(log, "writeStatus")) =>
              /\ IssuedOk(log, "createBranch")
              /\ IssuedOk(log, "publish")

C25_Witness ==
    /\ cmd = "dev" /\ ~loc.found /\ pc = "idle" /\ exitCode = "0"
    /\ Len(log) >= 4
    /\ log[3] = Entry("createBranch", loc.branch, TRUE)
    /\ log[4] = Entry("publish", loc.branch, TRUE)

C22_ResolutionKeepsTicket ==
    (cmd = "resolve" /\ pc = "done" /\ Len(log) = 1) =>
        extractTicketIdFromBranchName(log[1]) = loc.ticketId

\* C23: switchTo a branch that exists locally checks it out and creates
\* nothing; for a branch known only from the remote it creates the local
\* branch with the remote ref as upstream, and the branch is then local and
\* remote; for a branch that exists nowhere it fails and creates no branch.
C23_SwitchToByExistence ==
    (cmd = "switch" /\ pc = "done") =>
        LET b == loc.branchName
            switched == log[1].ok
        IN  /\ trackingRefs = {developmentBranch} \cup UtilTrackingRefs(loc)
            /\ currentBranch = IF switched THEN b ELSE developmentBranch
            /\ loc.local =>
                  /\ localBranches = {developmentBranch, b}
                  /\ upstream = {developmentBranch}
                  /\ switched = loc.ok
            /\ (~loc.local /\ loc.tracked) =>
                  /\ switched = loc.ok
                  /\ switched =>
                        b \in localBranches /\ b \in trackingRefs /\ b \in upstream
                  /\ ~switched => b \notin localBranches
            /\ (~loc.local /\ ~loc.tracked) =>
                  ~switched /\ b \notin localBranches /\ b \notin trackingRefs

C23_Witness ==
    /\ cmd = "switch" /\ pc = "done"
    /\ ~loc.local /\ loc.tracked /\ log[1].ok
    /\ loc.branchName \in localBranches \cap trackingRefs

\* C27: findTicketByTicketId returns a ticket exactly when some ticket of the
\* database has the identifier, for a database of any size.
C27_FindTicketScansAll ==
    (cmd = "findTicket" /\ pc = "done") =>
        /\ (\E i \in DOMAIN loc.database : loc.database[i] = loc.ticketId) =>
              log[1] = loc.ticketId
        /\ (~\E i \in DOMAIN loc.database : loc.database[i] = loc.ticketId) =>
              log[1] = NoTicket

\* C28: the status of a ticket read from a page is one of Backlog, In
\* progress, In review, Done or Unknown.
C28_StatusEnumeratedOrUnknown ==
    (cmd = "status" /\ pc = "done") =>
        log[1] \in {TICKET_STATUS_BACKLOG, TICKET_STATUS_IN_PROGRESS,
                    TICKET_STATUS_IN_REVIEW, TICKET_STATUS_DONE,
                    DEFAULT_UNKNOWN_STATUS}

\* C29: no invocation writes In progress to a ticket that is In review or
\* Done, and none writes In review to a ticket that is Done.
C29_StatusNeverBackwards ==
    [][(Issues("writeStatus") /\ log'[Len(log')].ok) =>
          LET written == log'[Len(log')].arg
          IN  /\ written = TICKET_STATUS_IN_PROGRESS =>
                    ticketStatus \notin {TICKET_STATUS_IN_REVIEW,
                                         TICKET_STATUS_DONE}
              /\ written = TICKET_STATUS_IN_REVIEW =>
                    ticketStatus # TICKET_STATUS_DONE]_vars

MatchesKeyword(type, kw) ==
    \E i \in 0..(Len(type) - Len(kw)) :
        \A k \in 1..Len(kw) : SameLetter(type[i + k], kw[k])

\* C30: a ticket type that matches the keyword bug and a keyword of
\* documentation, and an absent type, have the category feature.
C30_TiesResolveToFeature ==
    (/\ cmd = "prefix" /\ pc = "done"
     /\ \/ loc.ticketType \in {Undefined, << >>}
        \/ /\ MatchesKeyword(loc.ticketType, <<"b","u","g">>)
           /\ \E kw \in Keywords \ {<<"b","u","g">>} :
                 MatchesKeyword(loc.ticketType, kw)) =>
        CategoryOf(log[1]) = <<"f","e","a","t","u","r","e">>

\* C32: in open for review a failed assignment and a failed label colour
\* lookup do not end the invocation: the colour falls back to the default,
\* the PR link write is issued afterwards and, when that write succeeded, the
\* status write to In review.
C32_BestEffortSteps ==
    (cmd = "mr" /\ pc = "idle" /\ exitCode \in {"0", "1"}) =>
        \A i \in DOMAIN log :
            (\/ log[i].op = "assign" /\ ~log[i].ok
             \/ log[i].op = "labelColor" /\ ~log[i].ok /\ log[i + 1].ok) =>
                /\ log[i].op = "labelColor" => log[i].arg = "ededed"
                /\ \E j \in DOMAIN log :
                      /\ j > i /\ log[j].op = "writeLink"
                      /\ log[j].ok =>
                            \E k \in DOMAIN log :
                                /\ k > j /\ log[k].op = "writeStatus"
                                /\ log[k].arg = TICKET_STATUS_IN_REVIEW

C32_Witness ==
    /\ cmd = "mr" /\ pc = "idle" /\ exitCode = "0"
    /\ \E i \in DOMAIN log : log[i].op = "assign" /\ ~log[i].ok
    /\ \E i \in DOMAIN log : log[i].op = "labelColor" /\ ~log[i].ok
    /\ IssuedOk(log, "writeLink")
    /\ StatusWrittenOk(log, TICKET_STATUS_IN_REVIEW)

RemoteOps == {"publish", "push", "createPR", "merge", "deleteRemote",
              "deleteLocal", "writeStatus", "writeLink"}

\* C33: an invocation issues each of branch publish, push, PR creation,
\* merge, remote and local branch deletion, status write and PR link write at
\* most once, also after the call failed.
C33_NoRetry ==
    \A op \in RemoteOps :
        Cardinality({ i \in DOMAIN log : log[i].op = op }) <= 1

C33_Witness ==
    /\ cmd = "mr" /\ pc = "idle" /\ exitCode = "1"
    /\ \E i \in DOMAIN log : log[i].op = "writeLink" /\ ~log[i].ok

\* C35: a remote or local branch deletion is issued only by finish, only
\* after the merge call of the same invocation succeeded, and only for the
\* branch the invocation found current, which is not the development branch.
C35_DeleteOnlyAfterMerge ==
    \A i \in DOMAIN log :
        log[i].op \in {"deleteRemote", "deleteLocal"} =>
            /\ cmd = "finish"
            /\ log[i].arg = loc.branch
            /\ log[i].arg # developmentBranch
            /\ \E j \in DOMAIN log :
                  j < i /\ log[j] = Entry("merge", loc.branch, TRUE)

C35_Witness ==
    /\ cmd = "finish" /\ pc = "idle"
    /\ IssuedOk(log, "deleteRemote") /\ IssuedOk(log, "deleteLocal")
    /\ loc.branch \notin localBranches \cup originBranches

\* C36: open for review issues the PR lookup, the PR creation and the ticket
\* writes only after the push of the current branch succeeded in the same
\* invocation; after a failed push it issues none of them.
C36_PushFirst ==
    cmd = "mr" =>
        \A i \in DOMAIN log :
            log[i].op \in {"lookupPR", "createPR", "writeLink", "writeStatus"} =>
                \E j \in DOMAIN log : j < i /\ log[j].op = "push" /\ log[j].ok

C36_Witness ==
    /\ cmd = "mr" /\ pc = "idle"
    /\ log # << >> /\ log[1].op = "push" /\ log[1].ok
    /\ IssuedOk(log, "createPR")

\* C31: the merge request of finish has the squash method, the number of the
\* PR that is open for the current branch, and the commit title made of that
\* PR's title, " (#", its number and ")"; when the commit messages could not
\* be fetched the proposed body is the placeholder and the request is issued
\* all the same.
C31_MergeCall ==
    (cmd = "merge" /\ pc = "done") =>
        IF \E i \in DOMAIN loc.prs :
              loc.prs[i].open /\ loc.prs[i].head = loc.head
        THEN /\ Len(log) = 2
             /\ log[2].merge_method = "squash"
             /\ \E i \in DOMAIN loc.prs :
                   /\ loc.prs[i].open /\ loc.prs[i].head = loc.head
                   /\ log[2].pull_number = loc.prs[i].number
                   /\ log[2].commit_title =
                         loc.prs[i].title \o <<" ", "(", "#">>
                            \o (IF loc.prs[i].number = 7 THEN <<"7">>
                                ELSE <<"1", "2">>) \o <<")">>
             /\ ~loc.commitsOk => log[1] = <<"* No commit messages found">>
        ELSE log = << >>

C31_Witness ==
    /\ cmd = "merge" /\ pc = "done" /\ Len(log) = 2
    /\ Len(loc.prs) = 2 /\ ~loc.commitsOk /\ loc.commits # << >>
    /\ log[2].pull_number = 12

\* C37: the value that setup status displays for an API key accepted by the
\* key validation has the length of the key, differs from it, and shows no
\* character of it but the first four and the last four.
C37_KeysMasked ==
    (/\ cmd = "mask" /\ pc = "done"
     /\ \/ validateApiKey(<<"n", "t", "n", "_">>, loc.key)
        \/ validateApiKey(<<"g", "h", "p", "_">>, loc.key)) =>
        /\ Len(log[1]) = Len(loc.key)
        /\ log[1] # loc.key
        /\ \A i \in 5..(Len(loc.key) - 4) : log[1][i] = "*"

\* C38: setup with an existing global configuration and init with an
\* existing project configuration issue no prompt and no write and leave the
\* configuration as it is; init edit leaves projectId and ticketsDatabaseId
\* as they are for every answer.
C38_ConfigNotOverwritten ==
    (cmd \in {"setup", "init", "initEdit"} /\ pc = "done") =>
        /\ (cmd = "setup" /\ loc.global # NoConfig) =>
              log[1] = [calls |-> << >>, config |-> loc.global]
        /\ (cmd = "init" /\ loc.local # NoConfig) =>
              log[1] = [calls |-> << >>, config |-> loc.local]
        /\ (cmd = "initEdit" /\ loc.local # NoConfig) =>
              /\ log[1].config.projectId = loc.local.projectId
              /\ log[1].config.ticketsDatabaseId = loc.local.ticketsDatabaseId

C38_Witness ==
    /\ cmd = "initEdit" /\ pc = "done"
    /\ loc.local # NoConfig /\ log[1].calls = <<"prompt", "write">>
    /\ log[1].config.ticketPrefix = "CD"

\* C34: every invocation of start work, open for review and finish ends,
\* given that each of its calls and prompts returns or fails.
C34_Terminates == (pc # "idle") ~> (pc = "idle")

C34_Witness ==
    /\ cmd = "finish" /\ pc = "idle" /\ exitCode = "0"
    /\ loc.gate = "confirmed"
    /\ \E i \in DOMAIN log : log[i].op = "deleteRemote" /\ ~log[i].ok
    /\ StatusWrittenOk(log, TICKET_STATUS_DONE)

====
